---- MODULE Spec2Model ----
(***************************************************************************)
(* Replica selection, liveness tracking and quorum orchestration of the    *)
(* ddsp key-value store: router/router/finder.go (NodesFinder),            *)
(* router/router/router.go (Router) and the frontend service (Frontend).   *)
(***************************************************************************)
EXTENDS Integers, Sequences, FiniteSets, TLC

VARIABLES
    ReplicationFactor,  \* storage.ReplicationFactor of the build
    MinRedundancy,      \* storage.MinRedundancy of the build
    now,                \* the clock read by time.Now()
    heartbeat,          \* Router.heartbeat: node -> time of the last heartbeat
    hbErr,              \* what the last Router.Heartbeat call returned
    beaten,             \* history: the nodes whose Heartbeat call has succeeded
    rf,                 \* the Router.NodesFind call in progress
    pd,                 \* the Frontend.putDel call in progress
    fe,                 \* Frontend.nodes and Frontend.once
    gt,                 \* the fan-out of the Frontend.Get call in progress
    gc,                 \* the callers of Frontend.Get: where each one stands
    sel,                \* the NodesFinder.NodesFind call observed on its own
    memo,               \* history: the outcomes and result of an earlier Put/Del
    views               \* history: the live sets the router's map has shown
                        \* while the NodesFind call ran

vars == <<ReplicationFactor, MinRedundancy, now, heartbeat, hbErr, beaten, rf, pd,
          fe, gt, gc, sel, memo, views>>

routerVars == <<now, heartbeat, hbErr, beaten>>
getVars == <<fe, gt, gc>>
buildVars == <<ReplicationFactor, MinRedundancy>>

----------------------------------------------------------------------------
(* Bounds and configuration *)

\* the clock runs from 0 to MaxTime
MaxTime == 2
\* record keys are 0..MaxKey
MaxKey == 1
\* hash values are 0..HashMod-1, so that equal hashes happen
HashMod == 3

\* Config.ForgetTimeout, in clock ticks
ForgetTimeout == 2

\* Config.Nodes: the configured node list; addresses are ordered like integers
Nodes == <<1, 2, 3, 4, 5>>

\* an address no configuration lists
UnknownNode == Len(Nodes) + 1

\* the builds modelled: <<ReplicationFactor, MinRedundancy>>
Configs == {<<5, 3>>, <<3, 2>>}

\* a build in which two errors can both be returned by MinRedundancy nodes
WideBuild == <<4, 2>>

Keys == 0..MaxKey

\* the callers of Get are 1..NumCallers
NumCallers == 2

Callers == 1..NumCallers

Range(s) == {s[i] : i \in DOMAIN s}

NodeSet == Range(Nodes)

----------------------------------------------------------------------------
(* finder.go: the node selector *)

\* Hasher.Hash: a stand-in for the 64-bit digest, with collisions
Hash(k, node) == ((k + 1) * node * node + k + node) % HashMod

\* the less function given to sort.Slice: descending hash, then descending address
HashLessMutNoTie(k, a, b) == Hash(k, a) > Hash(k, b)
HashLessMutAsc(k, a, b) ==
    IF Hash(k, a) = Hash(k, b) THEN a < b ELSE Hash(k, a) > Hash(k, b)
HashLess(k, a, b) ==
    IF Hash(k, a) = Hash(k, b) THEN a > b ELSE Hash(k, a) > Hash(k, b)

\* insert x into the sorted sequence s, before the first element x is less than
RECURSIVE SortInsert(_, _, _)
SortInsert(k, x, s) ==
    IF s = <<>> THEN <<x>>
    ELSE IF HashLess(k, x, Head(s)) THEN <<x>> \o s
    ELSE <<Head(s)>> \o SortInsert(k, x, Tail(s))

\* sort.Slice(hashes, less)
RECURSIVE SortSlice(_, _)
SortSlice(k, s) ==
    IF s = <<>> THEN <<>> ELSE SortInsert(k, Head(s), SortSlice(k, Tail(s)))

\* NodesFinder.NodesFind(k, nodes)
NodesFinderNodesFind(k, nodes) ==
    LET hashes == SortSlice(k, nodes)
        l == IF Len(hashes) < ReplicationFactor THEN Len(hashes) ELSE ReplicationFactor
    IN  SubSeq(hashes, 1, l)

----------------------------------------------------------------------------
(* router.go: the router *)

RfIdle == [pc |-> "idle", k |-> 0, nodes |-> <<>>, i |-> 0, t |-> 0,
           ret |-> <<>>, out |-> <<>>, err |-> "nil"]

\* the state New(cfg) returns: every configured node stamped with time.Now()
RouterNew == [node \in NodeSet |-> now]

\* Heartbeat: the map lookup `_, ok := r.heartbeat[node]`
HeartbeatOkMut(node) == TRUE
HeartbeatOk(node) == node \in DOMAIN heartbeat

\* NodesFind: `t.Sub(r.heartbeat[nodes[i]]) < r.conf.ForgetTimeout`; a node
\* missing from the map reads as the zero time, which is never fresh
LiveMutLe(t, node) == node \in DOMAIN heartbeat /\ t - heartbeat[node] <= ForgetTimeout
Live(t, node) == node \in DOMAIN heartbeat /\ t - heartbeat[node] < ForgetTimeout

\* NodesFind: the final test on len(ret)
NotEnoughMut(ret) == Len(ret) <= MinRedundancy
NotEnough(ret) == Len(ret) < MinRedundancy

\* the errors a storage node's Put or Del may return, and nil
NodeErrs == {"ErrA", "ErrB"}
Outcomes == {"nil"} \cup NodeErrs

\* pd.calls and pd.tally are history: the number of job(node) calls issued to
\* each node, and the number of these calls that returned each outcome
PdIdle == [pc |-> "idle", op |-> "Put", k |-> 0, nodes |-> <<>>, wk |-> <<>>,
           wg |-> 0, errs |-> <<>>, n |-> 0, errMap |-> [e \in NodeErrs |-> 0],
           count |-> 0, res |-> "none", rerr |-> "nil",
           calls |-> [node \in NodeSet |-> 0], tally |-> [o \in Outcomes |-> 0]]

\* the contents a storage node's Get may return
Values == {"v1", "v2"}

\* what NC.Get returns: the data and a nil error, or no data and an error
GetResults ==
    {[data |-> v, err |-> "nil"] : v \in Values}
        \cup {[data |-> "nil", err |-> e] : e \in NodeErrs}

\* New(cfg) of the frontend: no node list yet, once not run
\* (fe.runner is the caller inside once.Do, 0 for none; fe.fetched and fe.first
\* are history: the number of List() calls that succeeded and the first answer)
FeNew == [nodes |-> <<>>, once |-> FALSE, runner |-> 0, fetched |-> 0, first |-> <<>>]

\* a caller of Get that is not in a call
GcIdle == [pc |-> "idle", k |-> 0, tries |-> 0]

\* no NodesFinder.NodesFind call observed yet
SelIdle == [pc |-> "idle", k |-> 0, nodes |-> <<>>, out |-> <<>>, again |-> <<>>,
            perm |-> <<>>, permOut |-> <<>>]

\* no Put/Del remembered yet
MemoNone == [set |-> FALSE, tally |-> [o \in Outcomes |-> 0], res |-> "none"]

\* a Go map read: the zero value for a missing key
MapGet(m, key) == IF key \in DOMAIN m THEN m[key] ELSE 0

\* a Go map increment m[key]++
MapInc(m, key) ==
    [x \in DOMAIN m \cup {key} |-> IF x = key THEN MapGet(m, key) + 1 ELSE m[x]]

\* gt.rcvd and gt.calls are history: the results received, in order, and the
\* number of NC.Get calls issued to each node
GtIdle == [pc |-> "idle", k |-> 0, caller |-> 0, nodes |-> <<>>, wk |-> <<>>,
           datachan |-> <<>>, n |-> 0, dataMap |-> <<>>, errMap |-> <<>>,
           res |-> [data |-> "nil", err |-> "none"], rcvd |-> <<>>,
           calls |-> [node \in NodeSet |-> 0]]

TypeOK ==
    /\ <<ReplicationFactor, MinRedundancy>> \in Configs \cup {WideBuild}
    /\ now \in 0..MaxTime
    /\ DOMAIN heartbeat = NodeSet
    /\ \A n \in NodeSet : heartbeat[n] \in 0..now
    /\ hbErr \in {"none", "nil", "ErrUnknownDaemon"}
    /\ beaten \subseteq NodeSet
    /\ rf.pc \in {"idle", "loop", "done"}
    /\ pd.pc \in {"idle", "find", "fanout", "drain", "done"}
    /\ gt.pc \in {"idle", "recv", "done"}
    /\ fe.once \in BOOLEAN
    /\ \A c \in Callers : gc[c].pc \in {"idle", "once", "fetch", "select", "run"}

Init ==
    /\ \E c \in Configs : ReplicationFactor = c[1] /\ MinRedundancy = c[2]
    /\ now = 0
    /\ heartbeat = RouterNew
    /\ hbErr = "none"
    /\ beaten = {}
    /\ rf = RfIdle
    /\ pd = PdIdle
    /\ fe = FeNew
    /\ gt = GtIdle
    /\ gc = [c \in Callers |-> GcIdle]
    /\ sel = SelIdle
    /\ memo = MemoNone
    /\ views = {}

\* time passes
Tick ==
    /\ now < MaxTime
    /\ now' = now + 1
    /\ UNCHANGED <<buildVars, heartbeat, hbErr, beaten, rf, pd, getVars, sel, memo, views>>

\* Router.Heartbeat(node), under the write lock: what it does to the router
HeartbeatLocked(node) ==
    /\ IF HeartbeatOk(node)
       THEN /\ heartbeat' = [n \in DOMAIN heartbeat \cup {node} |->
                                IF n = node THEN now ELSE heartbeat[n]]
            /\ hbErr' = "nil"
            /\ beaten' = beaten \cup {node}
       ELSE /\ hbErr' = "ErrUnknownDaemon"
            /\ UNCHANGED <<heartbeat, beaten>>
    /\ UNCHANGED <<buildVars, now, rf, pd, getVars, sel, memo>>

\* Router.Heartbeat(node)
Heartbeat(node) ==
    /\ HeartbeatLocked(node)
    /\ UNCHANGED views

\* the selected nodes of the NodesFind call that are fresh at its time t
LiveSelected == SelectSeq(rf.nodes, LAMBDA n : Live(rf.t, n))

\* Router.Heartbeat(node), the map it leaves being recorded when a NodesFind
\* call is between its start and its return
HeartbeatWatched(node) ==
    /\ HeartbeatLocked(node)
    /\ views' = IF rf.pc = "loop" THEN views \cup {LiveSelected'} ELSE views

\* Router.NodesFind(k) begins: the selection and the one reading of the clock
RouterNodesFindBegin(k) ==
    /\ rf.pc = "idle"
    /\ rf' = [RfIdle EXCEPT !.pc = "loop", !.k = k,
                            !.nodes = NodesFinderNodesFind(k, Nodes),
                            !.i = 1, !.t = now]
    /\ UNCHANGED <<buildVars, routerVars>>

\* Router.NodesFind(k), called on the router itself
RouterNodesFindStart(k) ==
    /\ pd.pc # "find"
    /\ RouterNodesFindBegin(k)
    /\ UNCHANGED <<pd, getVars, sel, memo, views>>

\* Router.NodesFind(k), called on the router itself, the map at its start
\* being recorded
RouterNodesFindWatched(k) ==
    /\ pd.pc # "find"
    /\ RouterNodesFindBegin(k)
    /\ views' = {LiveSelected'}
    /\ UNCHANGED <<pd, getVars, sel, memo>>

\* one iteration of the loop, under the read lock
RouterNodesFindStep ==
    /\ rf.pc = "loop"
    /\ rf.i <= Len(rf.nodes)
    /\ rf' = [rf EXCEPT !.i = rf.i + 1,
                        !.ret = IF Live(rf.t, rf.nodes[rf.i])
                                THEN Append(rf.ret, rf.nodes[rf.i])
                                ELSE rf.ret]
    /\ UNCHANGED <<buildVars, routerVars, pd, getVars, sel, memo, views>>

\* the loop is over: the length test and the return
RouterNodesFindReturn ==
    /\ rf.pc = "loop"
    /\ rf.i > Len(rf.nodes)
    /\ rf' = IF NotEnough(rf.ret)
             THEN [rf EXCEPT !.pc = "done", !.out = <<>>, !.err = "ErrNotEnoughDaemons"]
             ELSE [rf EXCEPT !.pc = "done", !.out = rf.ret, !.err = "nil"]
    /\ UNCHANGED <<buildVars, routerVars, pd, getVars, sel, memo, views>>

\* the caller has taken the result
RouterNodesFindTaken ==
    /\ rf.pc = "done"
    /\ pd.pc # "find"
    /\ rf' = RfIdle
    /\ UNCHANGED <<buildVars, routerVars, pd, getVars, sel, memo, views>>

NextRouter ==
    \/ Tick
    \/ \E node \in NodeSet \cup {UnknownNode} : Heartbeat(node)
    \/ \E k \in Keys : RouterNodesFindStart(k)
    \/ RouterNodesFindStep
    \/ RouterNodesFindReturn
    \/ RouterNodesFindTaken

SpecRouter == Init /\ [][NextRouter]_vars

----------------------------------------------------------------------------
(* Properties of the router *)

\* the node's last heartbeat came before the call read the clock: the clock
\* only advances, so the call's loop read this very record
Before(n) == heartbeat[n] < rf.t

\* the call has returned and every selected node last heartbeated before it
QuietReturn == rf.pc = "done" /\ \A n \in Range(rf.nodes) : Before(n)

\* C5 (as claimed): a returned node list never holds a node whose Heartbeat
\* has never succeeded
C5NeverBeatenNotLive ==
    rf.pc = "done" => \A n \in Range(rf.out) : n \in beaten

\* C6 (as claimed): a call issued after the last heartbeat of a selected node,
\* at time t, returns the node if t - t0 < ForgetTimeout and does not return
\* it if t - t0 >= ForgetTimeout, whatever the other nodes' heartbeats are
C6Original ==
    rf.pc = "done" =>
        \A n \in {m \in Range(rf.nodes) \cap beaten : Before(m)} :
            (n \in Range(rf.out)) <=> (rf.t - heartbeat[n] < ForgetTimeout)

\* C6 (amended): a call issued after the last heartbeat of a selected node, at
\* time t, does not return the node if t - t0 >= ForgetTimeout, and returns it
\* if t - t0 < ForgetTimeout and the call does not fail with ErrNotEnoughDaemons
C6Amended ==
    rf.pc = "done" =>
        \A n \in {m \in Range(rf.nodes) \cap beaten : Before(m)} :
            /\ rf.t - heartbeat[n] >= ForgetTimeout => n \notin Range(rf.out)
            /\ (rf.t - heartbeat[n] < ForgetTimeout /\ rf.err = "nil")
                   => n \in Range(rf.out)

\* a successful call that returns one heartbeated node, one tick old, and
\* drops another, ForgetTimeout old
C6Witness ==
    /\ rf.pc = "done" /\ rf.err = "nil"
    /\ \E n, m \in {x \in Range(rf.nodes) \cap beaten : Before(x)} :
          /\ rf.t - heartbeat[n] = ForgetTimeout - 1 /\ n \in Range(rf.out)
          /\ rf.t - heartbeat[m] = ForgetTimeout /\ m \notin Range(rf.out)

\* C7: a Heartbeat call for a node outside the configured set returns
\* ErrUnknownDaemon and changes neither the liveness map nor any record in it
C7UnknownHeartbeat ==
    [][(UnknownNode \notin NodeSet /\ Heartbeat(UnknownNode)) =>
          /\ hbErr' = "ErrUnknownDaemon"
          /\ heartbeat' = heartbeat
          /\ beaten' = beaten]_vars

\* an unknown node's heartbeat was refused after configured nodes heartbeated
C7Witness ==
    /\ hbErr = "ErrUnknownDaemon"
    /\ beaten # {}
    /\ DOMAIN heartbeat = NodeSet

----------------------------------------------------------------------------
(* frontend: Put and Del *)

\* putDel, after RC.NodesFind: the error returned before any fan-out, or "nil"
RoutedErrorMut(err, nodes) ==
    IF Len(nodes) < MinRedundancy THEN "ErrQuorumNotReached" ELSE "nil"
RoutedError(err, nodes) ==
    IF err # "nil" THEN err
    ELSE IF Len(nodes) < MinRedundancy THEN "ErrNotEnoughDaemons"
    ELSE "nil"

\* putDel: control is past wg.Wait() and the receive loop over nodes
ReachedDecisionMut == pd.pc \in {"fanout", "drain"}
ReachedDecision == pd.pc = "drain" /\ pd.n = Len(pd.nodes)

\* putDel: the results the last lines can return; ranging over a map visits
\* its keys in an order the runtime picks
PutDelResultMutGt(count, errMap) ==
    IF count > MinRedundancy THEN {"nil"}
    ELSE IF \E e \in DOMAIN errMap : errMap[e] >= MinRedundancy
         THEN {e \in DOMAIN errMap : errMap[e] >= MinRedundancy}
         ELSE {"ErrQuorumNotReached"}
PutDelResultMutAny(count, errMap) ==
    IF count >= MinRedundancy THEN {"nil"}
    ELSE IF \E e \in DOMAIN errMap : errMap[e] > 0
         THEN {e \in DOMAIN errMap : errMap[e] > 0}
         ELSE {"ErrQuorumNotReached"}
PutDelResult(count, errMap) ==
    IF count >= MinRedundancy THEN {"nil"}
    ELSE IF \E e \in DOMAIN errMap : errMap[e] >= MinRedundancy
         THEN {e \in DOMAIN errMap : errMap[e] >= MinRedundancy}
         ELSE {"ErrQuorumNotReached"}

\* Put(k, d) or Del(k) enters putDel and calls RC.NodesFind on the router
PutDelCall(op, k) ==
    /\ pd.pc = "idle"
    /\ RouterNodesFindBegin(k)
    /\ pd' = [PdIdle EXCEPT !.pc = "find", !.op = op, !.k = k]
    /\ UNCHANGED <<getVars, sel, memo, views>>

\* RC.NodesFind has returned: the two early returns, or the fan-out of one
\* goroutine per node with wg.Add(len(nodes)) and a channel of that capacity
PutDelRouted ==
    /\ pd.pc = "find"
    /\ rf.pc = "done"
    /\ rf' = RfIdle
    /\ LET e == RoutedError(rf.err, rf.out)
       IN  IF e # "nil"
           THEN pd' = [pd EXCEPT !.pc = "done", !.res = e, !.rerr = rf.err]
           ELSE pd' = [pd EXCEPT !.pc = "fanout", !.nodes = rf.out,
                                 !.wk = [i \in DOMAIN rf.out |-> "spawned"],
                                 !.wg = Len(rf.out), !.rerr = rf.err]
    /\ UNCHANGED <<buildVars, routerVars, getVars, sel, memo, views>>

\* goroutine i calls job(node): NC.Put or NC.Del on its node
PutDelWorkerCall(i) ==
    /\ pd.pc \in {"fanout", "drain", "done"}
    /\ i \in DOMAIN pd.wk
    /\ pd.wk[i] = "spawned"
    /\ pd' = [pd EXCEPT !.wk[i] = "inflight", !.calls[pd.nodes[i]] = @ + 1]
    /\ UNCHANGED <<buildVars, routerVars, rf, getVars, sel, memo, views>>

\* job(node) returns r, goroutine i sends it on errs and runs wg.Done()
PutDelWorkerDone(i, r) ==
    /\ pd.pc \in {"fanout", "drain", "done"}
    /\ i \in DOMAIN pd.wk
    /\ pd.wk[i] = "inflight"
    /\ Len(pd.errs) < Len(pd.nodes)
    /\ pd' = [pd EXCEPT !.wk[i] = "done", !.errs = Append(@, r), !.wg = @ - 1,
                        !.tally[r] = @ + 1]
    /\ UNCHANGED <<buildVars, routerVars, rf, getVars, sel, memo, views>>

\* wg.Wait() returns
PutDelWait ==
    /\ pd.pc = "fanout"
    /\ pd.wg = 0
    /\ pd' = [pd EXCEPT !.pc = "drain"]
    /\ UNCHANGED <<buildVars, routerVars, rf, getVars, sel, memo, views>>

\* one iteration of `for range nodes`: a receive from errs and the counting
PutDelRecv ==
    /\ pd.pc = "drain"
    /\ pd.n < Len(pd.nodes)
    /\ pd.errs # <<>>
    /\ LET err == Head(pd.errs)
       IN  pd' = IF err # "nil"
                 THEN [pd EXCEPT !.errs = Tail(@), !.n = @ + 1, !.errMap[err] = @ + 1]
                 ELSE [pd EXCEPT !.errs = Tail(@), !.n = @ + 1, !.count = @ + 1]
    /\ UNCHANGED <<buildVars, routerVars, rf, getVars, sel, memo, views>>

\* the decision and the return
PutDelDecide ==
    /\ ReachedDecision
    /\ \E r \in PutDelResult(pd.count, pd.errMap) :
          pd' = [pd EXCEPT !.pc = "done", !.res = r]
    /\ UNCHANGED <<buildVars, routerVars, rf, getVars, sel, memo, views>>

\* the caller has the result; the goroutines of the call have all ended
PutDelTaken ==
    /\ pd.pc = "done"
    /\ \A i \in DOMAIN pd.wk : pd.wk[i] = "done"
    /\ pd' = PdIdle
    /\ UNCHANGED <<buildVars, routerVars, rf, getVars, sel, memo, views>>

\* The router ForgetTimeout after its construction, when the nodes of a set
\* `quiet` have never heartbeated and the others have just done so: Tick
\* ForgetTimeout times, then Heartbeat(node) for every other node. The clock and the
\* heartbeats stand still while Put and Del run.
InitPutDel ==
    /\ \E c \in Configs : ReplicationFactor = c[1] /\ MinRedundancy = c[2]
    /\ now = ForgetTimeout
    /\ \E quiet \in SUBSET NodeSet :
          /\ heartbeat = [node \in NodeSet |-> IF node \in quiet THEN 0 ELSE now]
          /\ beaten = NodeSet \ quiet
          /\ hbErr = IF quiet # NodeSet THEN "nil" ELSE "none"
    /\ rf = RfIdle
    /\ pd = PdIdle
    /\ fe = FeNew
    /\ gt = GtIdle
    /\ gc = [c \in Callers |-> GcIdle]
    /\ sel = SelIdle
    /\ memo = MemoNone
    /\ views = {}

\* the steps of Put and Del for the keys of the set ks
PutDelSteps(ks) ==
    \/ \E op \in {"Put", "Del"}, k \in ks : PutDelCall(op, k)
    \/ RouterNodesFindStep
    \/ RouterNodesFindReturn
    \/ PutDelRouted
    \/ \E i \in 1..Len(Nodes) : PutDelWorkerCall(i)
    \/ \E i \in 1..Len(Nodes), r \in Outcomes : PutDelWorkerDone(i, r)
    \/ PutDelWait
    \/ PutDelRecv
    \/ PutDelDecide
    \/ PutDelTaken

NextPutDel == PutDelSteps(Keys)

SpecPutDel == InitPutDel /\ [][NextPutDel]_vars

----------------------------------------------------------------------------
(* frontend: Get *)

\* the failed List() calls of one run of once.Do are at most MaxListTries
MaxListTries == 2

\* Router.List()
RouterList == Nodes

\* what RC.List may answer when it succeeds: the list of the router, or the
\* list of a router that is configured otherwise
ListAnswers == {RouterList, SubSeq(RouterList, 1, 2), <<5, 4, 3, 2>>}

\* sync.Once: no caller is inside once.Do
OnceFreeMut == TRUE
OnceFree == fe.runner = 0

\* the loop inside once.Do: `if err == nil { break }`
FetchDoneMut(err) == TRUE
FetchDone(err) == err = "nil"

\* Get: the list given to NF.NodesFind
GetCandidatesMut == SelectSeq(fe.nodes, LAMBDA n : Live(now, n))
GetCandidates == fe.nodes

\* Get: `len(nodes) < storage.MinRedundancy`
TooFewMut(nodes) == FALSE
TooFew(nodes) == Len(nodes) < MinRedundancy

\* Get: make(chan result, len(nodes))
ChanCapMut(nodes) == 1
ChanCap(nodes) == Len(nodes)

\* Get: `for range nodes` has run len(nodes) times
LoopOverMut == gt.n >= MinRedundancy
LoopOver == gt.n = Len(gt.nodes)

\* Get: the key a successful response is counted under, string(data)
DataKeyMut(data) == "any"
DataKey(data) == data

\* Get: a count has reached the quorum
QuorumReachedMut(c) == c >= MinRedundancy - 1
QuorumReached(c) == c >= MinRedundancy

\* Get(k) is called
GetCall(c, k) ==
    /\ gc[c].pc = "idle"
    /\ gc' = [gc EXCEPT ![c] = [GcIdle EXCEPT !.pc = "once", !.k = k]]
    /\ UNCHANGED <<buildVars, routerVars, rf, pd, fe, gt, sel, memo, views>>

\* once.Do when the function has already run
GetOnceSkip(c) ==
    /\ gc[c].pc = "once"
    /\ fe.once
    /\ gc' = [gc EXCEPT ![c].pc = "select"]
    /\ UNCHANGED <<buildVars, routerVars, rf, pd, fe, gt, sel, memo, views>>

\* once.Do when the function has not run and nobody is running it: the
\* caller runs it; the other callers wait
GetOnceEnter(c) ==
    /\ gc[c].pc = "once"
    /\ ~fe.once
    /\ OnceFree
    /\ gc' = [gc EXCEPT ![c].pc = "fetch"]
    /\ fe' = [fe EXCEPT !.runner = c]
    /\ UNCHANGED <<buildVars, routerVars, rf, pd, gt, sel, memo, views>>

\* inside once.Do: RC.List fails, fe.nodes takes what it returned, and the
\* loop sleeps InitTimeout and retries
GetListFail(c) ==
    /\ gc[c].pc = "fetch"
    /\ gc[c].tries < MaxListTries
    /\ IF FetchDone("ErrList")
       THEN /\ fe' = [fe EXCEPT !.nodes = <<>>, !.once = TRUE, !.runner = 0]
            /\ gc' = [gc EXCEPT ![c].pc = "select"]
       ELSE /\ fe' = [fe EXCEPT !.nodes = <<>>]
            /\ gc' = [gc EXCEPT ![c].tries = @ + 1]
    /\ UNCHANGED <<buildVars, routerVars, rf, pd, gt, sel, memo, views>>

\* inside once.Do: RC.List succeeds with the list l, fe.nodes is set and
\* once.Do returns
GetListOk(c, l) ==
    /\ gc[c].pc = "fetch"
    /\ IF FetchDone("nil")
       THEN /\ fe' = [fe EXCEPT !.nodes = l, !.once = TRUE, !.runner = 0,
                                !.fetched = @ + 1,
                                !.first = IF fe.fetched = 0 THEN l ELSE @]
            /\ gc' = [gc EXCEPT ![c].pc = "select"]
       ELSE /\ fe' = [fe EXCEPT !.nodes = l, !.fetched = @ + 1,
                                !.first = IF fe.fetched = 0 THEN l ELSE @]
            /\ gc' = [gc EXCEPT ![c].tries = @ + 1]
    /\ UNCHANGED <<buildVars, routerVars, rf, pd, gt, sel, memo, views>>

\* the selection over fe.nodes, the test on its length and the fan-out of one
\* goroutine per node over a channel of capacity len(nodes)
GetSelect(c) ==
    /\ gc[c].pc = "select"
    /\ gt.pc = "idle"
    /\ gc' = [gc EXCEPT ![c].pc = "run"]
    /\ LET nodes == NodesFinderNodesFind(gc[c].k, GetCandidates)
       IN  IF TooFew(nodes)
           THEN gt' = [GtIdle EXCEPT !.pc = "done", !.k = gc[c].k, !.caller = c,
                                     !.res = [data |-> "nil", err |-> "ErrNotEnoughDaemons"]]
           ELSE gt' = [GtIdle EXCEPT !.pc = "recv", !.k = gc[c].k, !.caller = c,
                                     !.nodes = nodes,
                                     !.wk = [i \in DOMAIN nodes |-> "spawned"]]
    /\ UNCHANGED <<buildVars, routerVars, rf, pd, fe, sel, memo, views>>

\* goroutine i calls NC.Get(node, k)
GetWorkerCall(i) ==
    /\ gt.pc \in {"recv", "done"}
    /\ i \in DOMAIN gt.wk
    /\ gt.wk[i] = "spawned"
    /\ gt' = [gt EXCEPT !.wk[i] = "inflight", !.calls[gt.nodes[i]] = @ + 1]
    /\ UNCHANGED <<buildVars, routerVars, rf, pd, fe, gc, sel, memo, views>>

\* NC.Get returns r and goroutine i sends it on datachan, which takes it when
\* it holds fewer results than its capacity
GetWorkerDone(i, r) ==
    /\ gt.pc \in {"recv", "done"}
    /\ i \in DOMAIN gt.wk
    /\ gt.wk[i] = "inflight"
    /\ Len(gt.datachan) < ChanCap(gt.nodes)
    /\ gt' = [gt EXCEPT !.wk[i] = "done", !.datachan = Append(@, r)]
    /\ UNCHANGED <<buildVars, routerVars, rf, pd, fe, gc, sel, memo, views>>

\* one iteration of `for range nodes`: a receive, the counting and, when a
\* count reaches the quorum, the return
GetRecv ==
    /\ gt.pc = "recv"
    /\ ~LoopOver
    /\ gt.datachan # <<>>
    /\ LET d == Head(gt.datachan)
           g == [gt EXCEPT !.datachan = Tail(@), !.n = @ + 1, !.rcvd = Append(@, d)]
       IN  IF d.err = "nil"
           THEN LET dm == MapInc(gt.dataMap, DataKey(d.data))
                IN  IF QuorumReached(dm[DataKey(d.data)])
                    THEN gt' = [g EXCEPT !.dataMap = dm, !.pc = "done",
                                         !.res = [data |-> d.data, err |-> "nil"]]
                    ELSE gt' = [g EXCEPT !.dataMap = dm]
           ELSE LET em == MapInc(gt.errMap, d.err)
                IN  IF QuorumReached(em[d.err])
                    THEN gt' = [g EXCEPT !.errMap = em, !.pc = "done",
                                         !.res = [data |-> "nil", err |-> d.err]]
                    ELSE gt' = [g EXCEPT !.errMap = em]
    /\ UNCHANGED <<buildVars, routerVars, rf, pd, fe, gc, sel, memo, views>>

\* the loop has received from every node and no count reached the quorum
GetExhausted ==
    /\ gt.pc = "recv"
    /\ LoopOver
    /\ gt' = [gt EXCEPT !.pc = "done",
                        !.res = [data |-> "nil", err |-> "ErrQuorumNotReached"]]
    /\ UNCHANGED <<buildVars, routerVars, rf, pd, fe, gc, sel, memo, views>>

\* the caller has the result; the goroutines of the call have all ended
GetTaken ==
    /\ gt.pc = "done"
    /\ \A i \in DOMAIN gt.wk : gt.wk[i] = "done"
    /\ gt' = GtIdle
    /\ gc' = [gc EXCEPT ![gt.caller] = GcIdle]
    /\ UNCHANGED <<buildVars, routerVars, rf, pd, fe, sel, memo, views>>

\* the steps of Get taken by the callers of the set cs for the keys of the set
\* ks
GetSteps(cs, ks) ==
    \/ \E c \in cs, k \in ks : GetCall(c, k)
    \/ \E c \in cs : GetOnceSkip(c)
    \/ \E c \in cs : GetOnceEnter(c)
    \/ \E c \in cs : GetListFail(c)
    \/ \E c \in cs, l \in ListAnswers : GetListOk(c, l)
    \/ \E c \in cs : GetSelect(c)
    \/ \E i \in 1..Len(Nodes) : GetWorkerCall(i)
    \/ \E i \in 1..Len(Nodes), r \in GetResults : GetWorkerDone(i, r)
    \/ GetRecv
    \/ GetExhausted
    \/ GetTaken

\* one caller, calling Get again and again
SoloCaller == CHOOSE c \in Callers : \A d \in Callers : c <= d

NextGet == GetSteps({SoloCaller}, Keys)

SpecGet == Init /\ [][NextGet]_vars

\* the build with the smaller fan-out
SmallBuild == CHOOSE c \in Configs : \A d \in Configs : c[1] <= d[1]

\* every caller calling Get for one key, concurrently, in the build with the
\* smaller fan-out
InitBoot ==
    /\ ReplicationFactor = SmallBuild[1] /\ MinRedundancy = SmallBuild[2]
    /\ now = 0
    /\ heartbeat = RouterNew
    /\ hbErr = "none"
    /\ beaten = {}
    /\ rf = RfIdle
    /\ pd = PdIdle
    /\ fe = FeNew
    /\ gt = GtIdle
    /\ gc = [c \in Callers |-> GcIdle]
    /\ sel = SelIdle
    /\ memo = MemoNone
    /\ views = {}

NextBoot == GetSteps(Callers, {MaxKey})

SpecBoot == InitBoot /\ [][NextBoot]_vars

\* the same, where a caller that can go on does go on and a List() that is
\* tried for ever succeeds in the end
SpecBootFair ==
    /\ SpecBoot
    /\ \A c \in Callers :
        /\ WF_vars(GetOnceSkip(c))
        /\ WF_vars(GetOnceEnter(c))
        /\ WF_vars(\E l \in ListAnswers : GetListOk(c, l))

\* one caller calling Get for one key again and again in the build with the
\* smaller fan-out, where a node call that has been made returns and its
\* goroutine runs on
NextFanOut == GetSteps({SoloCaller}, {MaxKey})

SpecFanOut ==
    /\ InitBoot
    /\ [][NextFanOut]_vars
    /\ \A i \in 1..Len(Nodes) : WF_vars(\E r \in GetResults : GetWorkerDone(i, r))

\* the Frontend and the router just constructed, in that build
InitWide ==
    /\ ReplicationFactor = WideBuild[1] /\ MinRedundancy = WideBuild[2]
    /\ now = 0
    /\ heartbeat = RouterNew
    /\ hbErr = "none"
    /\ beaten = {}
    /\ rf = RfIdle
    /\ pd = PdIdle
    /\ fe = FeNew
    /\ gt = GtIdle
    /\ gc = [c \in Callers |-> GcIdle]
    /\ sel = SelIdle
    /\ memo = MemoNone
    /\ views = {}

\* the caller has the result of the first call and keeps it, with the
\* outcomes the nodes gave
PutDelRemember ==
    /\ pd.pc = "done"
    /\ \A i \in DOMAIN pd.wk : pd.wk[i] = "done"
    /\ ~memo.set
    /\ pd' = PdIdle
    /\ memo' = [set |-> TRUE, tally |-> pd.tally, res |-> pd.res]
    /\ UNCHANGED <<buildVars, routerVars, rf, getVars, sel, views>>

\* Put and Del for one key, called again and again
NextWide == PutDelSteps({MaxKey}) \/ PutDelRemember

SpecWide == InitWide /\ [][NextWide]_vars

\* Put or Del is not running: not called, or returned with its goroutines ended
PutDelSettled ==
    \/ pd.pc = "idle"
    \/ pd.pc = "done" /\ \A i \in DOMAIN pd.wk : pd.wk[i] = "done"

\* Put, Del and Get for one key on one Frontend, in the build with the smaller
\* fan-out, while the clock and the heartbeats stand still and the heartbeat
\* of one node has expired. putDel and Get
\* share no state (Get reads fe.nodes and the node clients, putDel the router
\* client and the node clients), so a Get that overlaps a Put or a Del does
\* what it does when it runs between the return of that call and the moment
\* the caller drops the result: the steps are taken in that order.
InitReadWrite ==
    /\ InitPutDel
    /\ ReplicationFactor = SmallBuild[1]
    /\ MinRedundancy = SmallBuild[2]
    /\ \E n \in NodeSet : beaten = NodeSet \ {n}

NextReadWrite ==
    \/ /\ \A c \in Callers : gc[c].pc = "idle"
       /\ PutDelSteps({MaxKey})
    \/ /\ PutDelSettled
       /\ GetSteps({SoloCaller}, {MaxKey})

SpecReadWrite == InitReadWrite /\ [][NextReadWrite]_vars

\* NodesFind calls and Heartbeat calls on the router while the clock stands
\* still, from the states Put and Del start from
NextOverlap ==
    \/ \E node \in NodeSet \cup {UnknownNode} : HeartbeatWatched(node)
    \/ \E k \in Keys : RouterNodesFindWatched(k)
    \/ RouterNodesFindStep
    \/ RouterNodesFindReturn
    \/ RouterNodesFindTaken

SpecOverlap == InitPutDel /\ [][NextOverlap]_vars

----------------------------------------------------------------------------
(* finder.go: NodesFinder.NodesFind called on its own *)

\* the sequences that hold every element of the set s once
RECURSIVE Perms(_)
Perms(s) ==
    IF s = {} THEN {<<>>}
    ELSE UNION {{<<x>> \o p : p \in Perms(s \ {x})} : x \in s}

\* the lists of distinct nodes a caller may pass
Candidates == UNION {Perms(s) : s \in SUBSET NodeSet}

\* what sort.Slice, which is not stable and whose algorithm is not fixed, may
\* leave of the elements of the set s: the orders in which every element is
\* one that none of the elements after it is less than
RECURSIVE SortOutcomes(_, _)
SortOutcomes(k, s) ==
    IF s = {} THEN {<<>>}
    ELSE UNION {{<<x>> \o p : p \in SortOutcomes(k, s \ {x})} :
                   x \in {x \in s : \A y \in s : ~HashLess(k, y, x)}}

\* what NodesFind(k, nodes) may return
FindOutcomes(k, nodes) ==
    LET l == IF Len(nodes) < ReplicationFactor THEN Len(nodes) ELSE ReplicationFactor
    IN  {SubSeq(hashes, 1, l) : hashes \in SortOutcomes(k, Range(nodes))}

\* NodesFind(k, nodes) is called and returns
SelectFirst(k, nodes) ==
    /\ sel.pc = "idle"
    /\ \E out \in FindOutcomes(k, nodes) :
           sel' = [SelIdle EXCEPT !.pc = "first", !.k = k, !.nodes = nodes, !.out = out]
    /\ UNCHANGED <<buildVars, routerVars, rf, pd, getVars, memo, views>>

\* NodesFind is called again with the same arguments
SelectAgain ==
    /\ sel.pc = "first"
    /\ \E out \in FindOutcomes(sel.k, sel.nodes) :
           sel' = [sel EXCEPT !.pc = "again", !.again = out]
    /\ UNCHANGED <<buildVars, routerVars, rf, pd, getVars, memo, views>>

\* NodesFind is called with the same key and the same nodes in the order perm
SelectPermuted(perm) ==
    /\ sel.pc = "again"
    /\ \E out \in FindOutcomes(sel.k, perm) :
           sel' = [sel EXCEPT !.pc = "perm", !.perm = perm, !.permOut = out]
    /\ UNCHANGED <<buildVars, routerVars, rf, pd, getVars, memo, views>>

\* the three results are dropped
SelectForget ==
    /\ sel.pc = "perm"
    /\ sel' = SelIdle
    /\ UNCHANGED <<buildVars, routerVars, rf, pd, getVars, memo, views>>

NextSelect ==
    \/ \E k \in Keys, nodes \in Candidates : SelectFirst(k, nodes)
    \/ SelectAgain
    \/ \E perm \in Perms(Range(sel.nodes)) : SelectPermuted(perm)
    \/ SelectForget

SpecSelect == Init /\ [][NextSelect]_vars

\* the router, Put and Del, and Get together
Next == NextRouter \/ NextPutDel \/ GetSteps(Callers, Keys) \/ NextSelect

Spec == Init /\ [][Next]_vars

----------------------------------------------------------------------------
(* Properties of Put and Del *)

\* C1: Put/Del returns nil exactly when at least MinRedundancy of its node
\* calls returned nil
C1SuccessIffQuorum ==
    pd.pc = "done" => (pd.res = "nil" <=> pd.tally["nil"] >= MinRedundancy)

\* five nodes, quorum three: three calls succeeded, two failed with different
\* errors, and Put/Del returned nil
C1Witness ==
    /\ pd.pc = "done"
    /\ Len(pd.nodes) = 5 /\ MinRedundancy = 3
    /\ pd.tally["nil"] = 3 /\ pd.tally["ErrA"] = 1 /\ pd.tally["ErrB"] = 1
    /\ pd.res = "nil"

\* C2: when fewer than MinRedundancy node calls succeeded, Put/Del returns the
\* error that at least MinRedundancy node calls returned, and
\* ErrQuorumNotReached when no error was returned that often
C2DominantError ==
    (pd.pc = "done" /\ pd.nodes # <<>> /\ pd.tally["nil"] < MinRedundancy) =>
        IF \E e \in NodeErrs : pd.tally[e] >= MinRedundancy
        THEN \A e \in NodeErrs : pd.tally[e] >= MinRedundancy => pd.res = e
        ELSE pd.res = "ErrQuorumNotReached"

\* five nodes, quorum three: two calls succeeded, three failed with ErrB, and
\* Put/Del returned ErrB
C2Witness ==
    /\ pd.pc = "done"
    /\ Len(pd.nodes) = 5 /\ MinRedundancy = 3
    /\ pd.tally["nil"] = 2 /\ pd.tally["ErrB"] = 3
    /\ pd.res = "ErrB"

\* five nodes, quorum three: two calls succeeded, one failed with ErrA, two
\* with ErrB, and Put/Del returned ErrQuorumNotReached
C2WitnessMixed ==
    /\ pd.pc = "done"
    /\ Len(pd.nodes) = 5 /\ MinRedundancy = 3
    /\ pd.tally["nil"] = 2 /\ pd.tally["ErrA"] = 1 /\ pd.tally["ErrB"] = 2
    /\ pd.res = "ErrQuorumNotReached"

\* C9: Put/Del calls each node the router returned once and no other node, and
\* has not returned while a goroutine has yet to call its node or is in the call
C9WaitsForAll ==
    /\ \A node \in NodeSet :
          pd.calls[node] <= (IF node \in Range(pd.nodes) THEN 1 ELSE 0)
    /\ pd.pc = "done" =>
          /\ \A i \in DOMAIN pd.wk : pd.wk[i] = "done"
          /\ \A node \in Range(pd.nodes) : pd.calls[node] = 1

\* Put/Del returned nil after calling more nodes than the quorum needs, of
\* which exactly MinRedundancy succeeded: it had both a failure and a full
\* quorum before the last call returned, and every node was called once
C9Witness ==
    /\ pd.pc = "done"
    /\ Len(pd.nodes) > MinRedundancy
    /\ pd.tally["nil"] = MinRedundancy
    /\ pd.res = "nil"
    /\ \A node \in Range(pd.nodes) : pd.calls[node] = 1

\* C10: when the router's NodesFind fails, Put/Del returns that error and
\* calls no node
C10RouterFailure ==
    pd.rerr # "nil" =>
        /\ pd.pc = "done"
        /\ pd.res = pd.rerr
        /\ pd.wk = <<>>
        /\ \A node \in NodeSet : pd.calls[node] = 0

\* the router answered ErrNotEnoughDaemons to a Put/Del
C10Witness ==
    /\ pd.pc = "done"
    /\ pd.rerr = "ErrNotEnoughDaemons"
    /\ pd.res = "ErrNotEnoughDaemons"

----------------------------------------------------------------------------
(* Properties of Get *)

\* the number of elements of s equal to x
RECURSIVE CountOf(_, _)
CountOf(x, s) ==
    IF s = <<>> THEN 0 ELSE (IF Head(s) = x THEN 1 ELSE 0) + CountOf(x, Tail(s))

\* the responses of the call so far: those received, then those still queued
Responses == gt.rcvd \o gt.datachan

\* Get returned a node's content or a node's error
QuorumReturn == gt.pc = "done" /\ gt.res.err \in {"nil"} \cup NodeErrs

\* C3: Get returns a content or a node error at the first received response
\* that brings the number of received responses equal to it to MinRedundancy:
\* the count is below MinRedundancy until then, and Get does not go on receiving
C3QuorumAtReturn ==
    /\ gt.pc = "recv" =>
          \A o \in GetResults : CountOf(o, gt.rcvd) < MinRedundancy
    /\ QuorumReturn =>
          /\ gt.rcvd # <<>>
          /\ gt.rcvd[Len(gt.rcvd)] = gt.res
          /\ CountOf(gt.res, gt.rcvd) = MinRedundancy
          /\ \A o \in GetResults :
                CountOf(o, SubSeq(gt.rcvd, 1, Len(gt.rcvd) - 1)) < MinRedundancy

\* Get returned a content while a node call was still in flight and another
\* response had not been received
C3Witness ==
    /\ QuorumReturn
    /\ gt.res.err = "nil"
    /\ Len(gt.rcvd) < Len(gt.nodes)
    /\ \E i \in DOMAIN gt.wk : gt.wk[i] = "inflight"

\* C4: once every selected node has responded, a result that at least
\* MinRedundancy of them gave is the one Get returned, whatever the order in
\* which the responses arrived
C4SameWinner ==
    (gt.pc = "done" /\ gt.nodes # <<>> /\ \A i \in DOMAIN gt.wk : gt.wk[i] = "done") =>
        \A o \in GetResults :
            CountOf(o, Responses) >= MinRedundancy => gt.res = o

\* five nodes, quorum three: three nodes gave v1, two gave v2, the two v2
\* arrived first, and Get returned v1
C4Witness ==
    /\ gt.pc = "done"
    /\ Len(gt.nodes) = 5 /\ MinRedundancy = 3
    /\ \A i \in DOMAIN gt.wk : gt.wk[i] = "done"
    /\ CountOf([data |-> "v1", err |-> "nil"], Responses) = 3
    /\ CountOf([data |-> "v2", err |-> "nil"], Responses) = 2
    /\ Len(gt.rcvd) = 5
    /\ gt.rcvd[1].data = "v2" /\ gt.rcvd[2].data = "v2"
    /\ gt.res = [data |-> "v1", err |-> "nil"]

----------------------------------------------------------------------------
(* Properties of the bootstrap of Get *)

\* the callers that are past once.Do
PastOnce == {c \in Callers : gc[c].pc \in {"select", "run"}}

\* C11: over all the calls of Get on one Frontend, sequential or concurrent,
\* List() succeeds at most once and exactly once as soon as a caller is past
\* once.Do; two callers are never both inside once.Do; and the list every
\* caller past once.Do selects from is the first successful answer, whatever
\* List() would answer later.
C11FetchOnce ==
    /\ fe.fetched <= 1
    /\ \A c, d \in Callers : gc[c].pc = "fetch" /\ gc[d].pc = "fetch" => c = d
    /\ fe.once => fe.fetched = 1
    /\ PastOnce # {} => fe.once /\ fe.fetched = 1 /\ fe.nodes = fe.first
    /\ gt.pc = "recv" => gt.nodes = NodesFinderNodesFind(gt.k, fe.first)

\* two callers are past once.Do, one of them in a fan-out over the cached
\* list, which is not the list the router would answer now
C11Witness ==
    /\ \E c, d \in Callers : c # d /\ gc[c].pc = "run" /\ gc[d].pc = "select"
    /\ gt.pc = "recv"
    /\ fe.fetched = 1
    /\ fe.first # RouterList

\* a call of Get is at a node call or past it
NodeCalled == \E n \in NodeSet : gt.calls[n] > 0

\* C12: a failed List() is never what a caller of Get gets: the caller stays
\* inside once.Do and List() is tried again; no caller reaches the selection
\* and no node is called before a List() has succeeded; and, List() succeeding
\* in the end, every caller waiting at once.Do gets past it.
C12RetryUntilFetched ==
    /\ [](PastOnce # {} \/ gt.pc # "idle" \/ NodeCalled => fe.fetched >= 1 /\ fe.once)
    /\ [][\A c \in Callers : GetListFail(c) => gc'[c].pc = "fetch" /\ ~fe'.once]_vars
    /\ \A c \in Callers : gc[c].pc \in {"once", "fetch"} ~> gc[c].pc \in {"select", "run"}

\* List() has failed MaxListTries times for one caller, which is now in its
\* fan-out, and another caller, which waited at once.Do, is past it
C12Witness ==
    \E c, d \in Callers :
        /\ c # d
        /\ gc[c].tries = MaxListTries
        /\ gc[c].pc = "run"
        /\ NodeCalled
        /\ gc[d].pc = "select"

----------------------------------------------------------------------------
(* Properties of the selection and the fan-out of Get *)

\* C13: when the selector returns fewer than MinRedundancy nodes of the cached
\* list, Get fails with ErrNotEnoughDaemons and calls no node.
C13TooFewSelected ==
    gt.pc # "idle" /\ Len(NodesFinderNodesFind(gt.k, fe.nodes)) < MinRedundancy
        => /\ gt.pc = "done"
           /\ gt.res = [data |-> "nil", err |-> "ErrNotEnoughDaemons"]
           /\ gt.wk = <<>>
           /\ ~NodeCalled

\* the cached list has two nodes, the quorum is three, and Get has returned
C13Witness ==
    /\ Len(fe.nodes) = MinRedundancy - 1
    /\ Len(fe.nodes) > 1
    /\ gt.pc = "done"
    /\ gt.res.err = "ErrNotEnoughDaemons"

\* every selected node's response has been received and no content and no
\* error has been returned by MinRedundancy nodes
AllReceivedNoQuorum ==
    /\ gt.nodes # <<>>
    /\ Len(gt.rcvd) = Len(gt.nodes)
    /\ \A r \in GetResults : CountOf(r, gt.rcvd) < MinRedundancy

\* C14: Get returns ErrQuorumNotReached exactly when the responses of all the
\* selected nodes have been received and neither one content nor one error
\* was returned by MinRedundancy of them; it never does while a response is
\* outstanding.
C14QuorumNotReached ==
    gt.pc = "done" =>
        /\ gt.res.err = "ErrQuorumNotReached" <=> AllReceivedNoQuorum
        /\ gt.res.err = "ErrQuorumNotReached"
               => gt.res.data = "nil" /\ \A i \in DOMAIN gt.wk : gt.wk[i] = "done"

\* five responses, no three of them equal, two of them equal
C14Witness ==
    /\ gt.pc = "done"
    /\ gt.res.err = "ErrQuorumNotReached"
    /\ Len(gt.nodes) > MinRedundancy
    /\ \E r \in GetResults : r.err = "nil" /\ CountOf(r, gt.rcvd) = MinRedundancy - 1

----------------------------------------------------------------------------
(* Properties of the selector *)

\* the smaller of two numbers
Min(a, b) == IF a < b THEN a ELSE b

\* C15: for every key and every list of distinct nodes, NodesFind returns
\* min(ReplicationFactor, length of the list) nodes, all distinct and all of
\* the list, and a second call with the same arguments returns the same
\* nodes in the same order.
C15SelectCount ==
    sel.pc # "idle" =>
        /\ Len(sel.out) = Min(ReplicationFactor, Len(sel.nodes))
        /\ Cardinality(Range(sel.out)) = Len(sel.out)
        /\ Range(sel.out) \subseteq Range(sel.nodes)
        /\ sel.out = NodesFinderNodesFind(sel.k, sel.nodes)
        /\ sel.pc \in {"again", "perm"} => sel.again = sel.out

\* a list longer than ReplicationFactor, with two nodes of equal hash, has
\* been given twice
C15Witness ==
    /\ sel.pc = "again"
    /\ Len(sel.nodes) > ReplicationFactor
    /\ \E a, b \in Range(sel.nodes) : a # b /\ Hash(sel.k, a) = Hash(sel.k, b)

\* node a ranks above node b for the key k
Above(k, a, b) ==
    \/ Hash(k, a) > Hash(k, b)
    \/ Hash(k, a) = Hash(k, b) /\ a > b

\* C16: the result is the first min(ReplicationFactor, length) nodes of the
\* list ordered by descending hash, equal hashes by descending address: it is
\* in that order and every node left out ranks below every node returned; so
\* the result is the same for every order of the candidates.
C16RankedPrefix ==
    sel.pc # "idle" =>
        /\ Len(sel.out) = Min(ReplicationFactor, Len(sel.nodes))
        /\ \A i, j \in DOMAIN sel.out : i < j => Above(sel.k, sel.out[i], sel.out[j])
        /\ \A a \in Range(sel.out), b \in Range(sel.nodes) \ Range(sel.out) :
               Above(sel.k, a, b)
        /\ sel.pc = "perm" => sel.permOut = sel.out

\* the candidates have been given in two orders, and the result holds two
\* nodes of equal hash and leaves a node out
C16Witness ==
    /\ sel.pc = "perm"
    /\ sel.perm # sel.nodes
    /\ Len(sel.nodes) > Len(sel.out)
    /\ \E i, j \in DOMAIN sel.out : i # j /\ Hash(sel.k, sel.out[i]) = Hash(sel.k, sel.out[j])

----------------------------------------------------------------------------
(* Properties of Get next to Put and Del *)

\* the nodes the Get call has called
Contacted == {n \in NodeSet : gt.calls[n] > 0}

\* C17: the nodes a Get calls are the nodes the selector returns for the key
\* over the cached list, each once, whatever the router's heartbeat map says,
\* while Put and Del call live nodes only: a selected node whose heartbeat has
\* expired is not called by Put or Del and is called by Get.
C17GetIgnoresLiveness ==
    /\ gt.pc # "idle" =>
         LET want == NodesFinderNodesFind(gt.k, fe.nodes)
         IN  /\ Contacted \subseteq Range(want)
             /\ \A n \in NodeSet : gt.calls[n] <= 1
             /\ Len(want) >= MinRedundancy /\ (\A i \in DOMAIN gt.wk : gt.wk[i] # "spawned")
                    => Contacted = Range(want)
    /\ \A n \in NodeSet : pd.calls[n] > 0 => Live(now, n)

\* a Put or Del has succeeded without calling a selected node whose heartbeat
\* has expired, and a Get for the same key has called that node
C17Witness ==
    \E n \in NodeSet :
        /\ ~Live(now, n)
        /\ pd.pc = "done" /\ pd.res = "nil" /\ pd.k = gt.k
        /\ n \in Range(NodesFinderNodesFind(pd.k, Nodes))
        /\ pd.calls[n] = 0
        /\ gt.pc = "done"
        /\ gt.calls[n] = 1

----------------------------------------------------------------------------
(* Properties of the goroutines of Get *)

\* goroutine i of the Get call is inside NC.Get or at its send
InFlight(i) == i \in DOMAIN gt.wk /\ gt.wk[i] = "inflight"

\* goroutine i of the Get call has sent and ended
Ended(i) == i \in DOMAIN gt.wk /\ gt.wk[i] = "done"

\* C18: datachan has room for one result per selected node and every
\* goroutine sends once, so the number of results sent is the number of
\* goroutines that have ended, a goroutine whose node call returns can always
\* send, before and after Get has returned, and it then ends.
C18NoBlockedSend ==
    /\ [](gt.pc # "idle" =>
            /\ Len(gt.rcvd) + Len(gt.datachan) = Cardinality({i \in DOMAIN gt.wk : Ended(i)})
            /\ (\E i \in DOMAIN gt.wk : ~Ended(i)) => Len(gt.datachan) < Len(gt.nodes)
            /\ \A i \in DOMAIN gt.wk :
                   InFlight(i) => \A r \in GetResults : ENABLED GetWorkerDone(i, r))
    /\ \A i \in 1..Len(Nodes) : InFlight(i) ~> Ended(i)

\* Get returned on a quorum before it had received from every node, and the
\* goroutine that was still running has sent its result and ended
C18Witness ==
    /\ gt.pc = "done"
    /\ gt.res.err = "nil"
    /\ Len(gt.rcvd) < Len(gt.nodes)
    /\ Len(gt.datachan) = Len(gt.nodes) - Len(gt.rcvd)
    /\ \A i \in DOMAIN gt.wk : Ended(i)

----------------------------------------------------------------------------
(* Properties of putDel over all builds *)

\* C19: the result of Put and Del is a function of the outcomes the nodes
\* gave, counted without their order: a call whose nodes gave the same
\* outcomes as those of an earlier call returns what that call returned.
C19ResultOfOutcomes ==
    pd.pc = "done" /\ memo.set /\ pd.tally = memo.tally => pd.res = memo.res

----------------------------------------------------------------------------
(* Properties of the router under concurrent heartbeats *)

\* what NodesFind returns when the fresh selected nodes are those of v
ResultOf(v) ==
    IF Len(v) < MinRedundancy
    THEN [out |-> <<>>, err |-> "ErrNotEnoughDaemons"]
    ELSE [out |-> v, err |-> "nil"]

\* C20: what a NodesFind call returns is what the heartbeat map gives at one
\* of the instants between the start of the call and its return.
C20OneInstant ==
    rf.pc = "done" => \E v \in views : [out |-> rf.out, err |-> rf.err] = ResultOf(v)
====
